---- MODULE Spec2Model ----
(***************************************************************************)
(* A model of formulas/formulas/functions.py: the registry FUNCTIONS, the  *)
(* elementwise wrapper wrap_ufunc, the fail-fast aggregates and the error  *)
(* predicates.  A state is the registry and the last registry operation    *)
(* (a lookup, or the invocation of a registered function on arguments).    *)
(***************************************************************************)
EXTENDS Integers, Sequences, FiniteSets, TLC

VARIABLES FUNCTIONS, last

vars == <<FUNCTIONS, last>>

(***************************************************************************)
(* Bounds of the model.                                                    *)
(***************************************************************************)
\* numbers passed to the numeric functions are the integers -MaxNum..MaxNum
MaxNum == 2
\* an array argument holds at most MaxSize leaves (shapes 1 x n and n x 1)
MaxSize == 2

(***************************************************************************)
(* Cell values.  Every leaf is a record of one shape, so that any two      *)
(* leaves compare: k is the kind, n/d a rational number (or the sign of an *)
(* infinity, or the direction <<y, x>> of an angle), t the characters of a *)
(* text, e an error code or the name of a raised exception.                *)
(***************************************************************************)
Cell(k, n, d, t, e) == [k |-> k, n |-> n, d |-> d, t |-> t, e |-> e]

Abs(i) == IF i < 0 THEN -i ELSE i

RECURSIVE GCD(_, _)
GCD(a, b) == IF b = 0 THEN a ELSE GCD(b, a % b)

\* the float n/d, in lowest terms with a positive denominator
Num(n, d) ==
    LET g == GCD(Abs(n), Abs(d))
        s == IF d < 0 THEN -1 ELSE 1
    IN  Cell("num", s * (n \div g), s * (d \div g), <<>>, "")

Inf(s) == Cell("inf", s, 1, <<>>, "")
NaN == Cell("nan", 0, 1, <<>>, "")
\* a Python str
Text(t) == Cell("text", 0, 1, t, "")
\* a Python bool: True is 1 and False is 0 in arithmetic
Bool(b) == Cell("bool", IF b THEN 1 ELSE 0, 1, <<>>, "")
\* the missing-value marker of the surrounding evaluator
Empty == Cell("empty", 0, 1, <<>>, "")
\* the value of atan2(y, x) that is no rational: named by its direction
Angle(y, x) == Cell("angle", y, x, <<>>, "")
\* a raised Python exception (control flow, never a cell of an array)
Raise(exc) == Cell("raise", 0, 1, <<>>, exc)
\* raise FoundError(err=v): the exception carries the error code in t
FoundError(v) == Cell("raise", 0, 1, <<v.e>>, "FoundError")

\* the closed set of error codes, Error.errors
ErrorCodes == {"#NULL!", "#DIV/0!", "#VALUE!", "#REF!", "#NAME?", "#NUM!", "#N/A"}
\* Error.errors[code]: the one XlError instance of a code
Error(code) == Cell("err", 0, 1, <<>>, code)
\* isinstance(v, XlError)
XlError(v) == v.k = "err"

IsRaise(v) == v.k = "raise"
\* a Python number: float, or bool (an int)
IsNumeric(v) == v.k \in {"num", "bool"}

(***************************************************************************)
(* float(v), as safe_eval and is_number call it.                           *)
(***************************************************************************)
Digits == {"0", "1", "2", "3", "4", "5", "6", "7", "8", "9"}

DigitVal(c) ==
    CASE c = "0" -> 0 [] c = "1" -> 1 [] c = "2" -> 2 [] c = "3" -> 3
      [] c = "4" -> 4 [] c = "5" -> 5 [] c = "6" -> 6 [] c = "7" -> 7
      [] c = "8" -> 8 [] c = "9" -> 9

\* the value of a sequence of decimal digits
RECURSIVE DigitsVal(_)
DigitsVal(t) ==
    IF t = <<>> THEN 0
    ELSE 10 * DigitsVal(SubSeq(t, 1, Len(t) - 1)) + DigitVal(t[Len(t)])

\* float(str): an optional sign, then decimal digits, "inf" or "nan";
\* anything else raises ValueError
ParseFloat(t) ==
    LET signed == t # <<>> /\ t[1] \in {"-", "+"}
        sgn == IF signed /\ t[1] = "-" THEN -1 ELSE 1
        body == IF signed THEN Tail(t) ELSE t
    IN  IF body = <<"i", "n", "f">> THEN Inf(sgn)
        ELSE IF body = <<"n", "a", "n">> THEN NaN
        ELSE IF body # <<>> /\ \A i \in 1..Len(body) : body[i] \in Digits
             THEN Num(sgn * DigitsVal(body), 1)
        ELSE Raise("ValueError")

\* float(v).  An error value is a token that is no number: float raises
\* on it, as it does on text that is no numeral; so does the empty marker.
ToFloat(v) ==
    CASE v.k \in {"num", "inf", "nan", "angle"} -> v
      [] v.k = "bool" -> Num(v.n, 1)
      [] v.k = "text" -> ParseFloat(v.t)
      [] v.k = "err" -> Raise("ValueError")
      [] v.k = "empty" -> Raise("ValueError")

\* is_number(number).  The guard isinstance(number, Error) tests the operand
\* class Error, which no cell value is an instance of: every value goes on
\* to float().
is_number(number) == ~IsRaise(ToFloat(number))

(***************************************************************************)
(* Float arithmetic on the finite values of the model.                     *)
(***************************************************************************)
RECURSIVE IntPow(_, _)
IntPow(b, e) == IF e = 0 THEN 1 ELSE b * IntPow(b, e - 1)

Add(x, y) == Num(x.n * y.d + y.n * x.d, x.d * y.d)
Mul(x, y) == Num(x.n * y.n, x.d * y.d)
\* x < y on Python numbers
Less(x, y) == x.n * y.d < y.n * x.d
IsZero(x) == x.k = "num" /\ x.n = 0

\* np.abs
NpAbs(x) ==
    CASE x.k = "num" -> Num(Abs(x.n), x.d)
      [] x.k = "inf" -> Inf(1)
      [] x.k = "nan" -> NaN

\* np.power on finite floats with an integral exponent; 0.0 ** negative = inf
NpPower(x, p) ==
    IF p.n >= 0 THEN Num(IntPow(x.n, p.n), IntPow(x.d, p.n))
    ELSE IF x.n = 0 THEN Inf(1)
    ELSE Num(IntPow(x.d, -p.n), IntPow(x.n, -p.n))

\* np.mod on finite floats: the remainder has the sign of the divisor, and
\* np.mod(x, 0.0) = nan
NpMod(x, y) ==
    IF y.n = 0 THEN NaN
    ELSE LET p == x.n * y.d
             q == x.d * y.n
             fl == IF q > 0 THEN p \div q ELSE (-p) \div (-q)
         IN  Add(x, Mul(Num(-fl, 1), y))

\* np.arctan2(y, x) on finite floats: 0.0 on the positive x axis and at the
\* origin, else the angle of the direction (y, x)
NpArctan2(y, x) ==
    IF y.n = 0 /\ x.n >= 0 THEN Num(0, 1)
    ELSE LET yy == y.n * x.d
             xx == x.n * y.d
             g == GCD(Abs(yy), Abs(xx))
         IN  Angle(yy \div g, xx \div g)

\* the truth value of a Python object
Truthy(v) ==
    CASE v.k \in {"num", "bool"} -> v.n # 0
      [] v.k = "text" -> v.t # <<>>
      [] v.k = "err" -> TRUE
      [] OTHER -> TRUE

\* the idiom `c and a or b`
AndOr(c, a, b) == IF c /\ Truthy(a) THEN a ELSE b

(***************************************************************************)
(* Python values passed to and returned by the functions: a scalar (one    *)
(* cell), a 2-d Array (rows of cells), the 0-d array np.vectorize gives on *)
(* scalar inputs, or a raised exception.                                   *)
(***************************************************************************)
Scalar(c) == [kind |-> "scalar", data |-> <<<<c>>>>]
Array(rows) == [kind |-> "array", data |-> rows]
Array0(c) == [kind |-> "array0", data |-> <<<<c>>>>]
Raised(exc) == [kind |-> "raise", data |-> <<<<exc>>>>]
\* the Python None
None == Cell("none", 0, 1, <<>>, "")

\* the one cell of a scalar, a 0-d array or a raised exception
Item(v) == v.data[1][1]
\* ndarray.shape; () for a scalar
Shape(v) == IF v.kind = "array" THEN <<Len(v.data), Len(v.data[1])>> ELSE <<>>
\* ndarray.size
Size(v) == Len(v.data) * Len(v.data[1])
\* ndarray.ravel(): the leaves in row-major order
RECURSIVE Ravel(_)
Ravel(rows) == IF rows = <<>> THEN <<>> ELSE Head(rows) \o Ravel(Tail(rows))

\* replace_empty(x): the empty marker becomes the substitute 0
replace_empty(x) ==
    [x EXCEPT !.data = [r \in DOMAIN x.data |-> [c \in DOMAIN x.data[r] |->
        IF x.data[r][c] = Empty THEN Num(0, 1) ELSE x.data[r][c]]]]

(***************************************************************************)
(* flatten and raise_errors.                                               *)
(***************************************************************************)
\* flatten(l, check) over the argument tuple l: every argument that is
\* iterable (an array, never a str) is descended into, rows first; a leaf
\* is yielded when there is no check or the check accepts it
RECURSIVE flatten(_, _)
flatten(l, check) ==
    IF l = <<>> THEN <<>>
    ELSE LET leaves == IF Head(l).kind = "array" THEN Ravel(Head(l).data)
                       ELSE <<Item(Head(l))>>
             Keep(v) == check = "None" \/ is_number(v)
         IN  SelectSeq(leaves, Keep) \o flatten(Tail(l), check)

\* variant: raise_errors flattening with the default check (is_number), which
\* drops the error values before they are looked for
raise_errors_filtered(args) ==
    LET errs == SelectSeq(flatten(args, "is_number"), XlError)
    IN  IF errs # <<>> THEN FoundError(errs[1]) ELSE None

\* raise_errors(*args): FoundError on the first XlError met, else None
raise_errors(args) ==
    LET errs == SelectSeq(flatten(args, "None"), XlError)
    IN  IF errs # <<>> THEN FoundError(errs[1]) ELSE None

(***************************************************************************)
(* The scalar functions handed to wrap_ufunc.                              *)
(***************************************************************************)
\* xarctan2(x, y): x == y == 0 and Error.errors['#DIV/0!'] or np.arctan2(y, x)
xarctan2(x, y) == AndOr(x = y /\ IsZero(y), Error("#DIV/0!"), NpArctan2(y, x))

\* variant: the idiom the other way round, y != 0 and np.mod(x, y) or error,
\* which loses a remainder of 0
xmod_idiom(x, y) == AndOr(~IsZero(y), NpMod(x, y), Error("#DIV/0!"))

\* xmod(x, y): y == 0 and Error.errors['#DIV/0!'] or np.mod(x, y)
xmod(x, y) == AndOr(IsZero(y), Error("#DIV/0!"), NpMod(x, y))

\* variant: xpower that leaves a zero base with a negative power to np.power
xpower_unchecked(number, power) ==
    IF IsZero(number) /\ IsZero(power) THEN Error("#NUM!") ELSE NpPower(number, power)

\* xpower(number, power)
xpower(number, power) ==
    IF IsZero(number) /\ IsZero(power) THEN Error("#NUM!")
    ELSE IF IsZero(number) /\ power.n < 0 THEN Error("#DIV/0!")
    ELSE NpPower(number, power)

(***************************************************************************)
(* Python's sum, max and min over the flattened leaves.                    *)
(***************************************************************************)
\* ord(c) of the characters the texts of the model use
CharCode(c) ==
    CASE c = "+" -> 43 [] c = "-" -> 45 [] c \in Digits -> 48 + DigitVal(c)
      [] c = "a" -> 97 [] c = "b" -> 98 [] c = "f" -> 102 [] c = "i" -> 105
      [] c = "n" -> 110

\* s < t on str: lexicographic by character code
RECURSIVE StrLess(_, _)
StrLess(s, t) ==
    IF t = <<>> THEN FALSE
    ELSE IF s = <<>> THEN TRUE
    ELSE IF CharCode(s[1]) # CharCode(t[1]) THEN CharCode(s[1]) < CharCode(t[1])
    ELSE StrLess(Tail(s), Tail(t))

\* x < y on Python objects: numbers by value, str by characters; a number
\* and a str do not order (TypeError)
Orders(x, y) == (x.k = "text") = (y.k = "text")
PyLess(x, y) == IF x.k = "text" THEN StrLess(x.t, y.t) ELSE Less(x, y)

\* sum(l): 0 + l[1] + l[2] + ...; int + str raises TypeError
RECURSIVE PySum(_, _)
PySum(acc, l) ==
    IF l = <<>> THEN acc
    ELSE IF ~IsNumeric(Head(l)) THEN Raise("TypeError")
    ELSE PySum(Add(acc, Head(l)), Tail(l))

\* max(l) / min(l): the first extreme item; ValueError on an empty sequence
RECURSIVE PyExtreme(_, _, _)
PyExtreme(cur, l, wantMax) ==
    IF l = <<>> THEN cur
    ELSE IF ~Orders(cur, Head(l)) THEN Raise("TypeError")
    ELSE IF (wantMax /\ PyLess(cur, Head(l))) \/ (~wantMax /\ PyLess(Head(l), cur))
         THEN PyExtreme(Head(l), Tail(l), wantMax)
    ELSE PyExtreme(cur, Tail(l), wantMax)

PyMax(l) == IF l = <<>> THEN Raise("ValueError") ELSE PyExtreme(Head(l), Tail(l), TRUE)
PyMin(l) == IF l = <<>> THEN Raise("ValueError") ELSE PyExtreme(Head(l), Tail(l), FALSE)

\* a returned cell, or the exception it stands for
Outcome(c) == IF IsRaise(c) THEN Raised(c) ELSE Scalar(c)

(***************************************************************************)
(* The aggregates.                                                         *)
(***************************************************************************)
\* average(*args): sum(l) / len(l) over the leaves is_number accepts
average(args) ==
    LET l == flatten(args, "is_number")
        s == PySum(Num(0, 1), l)
    IN  IF IsRaise(s) THEN Raised(s)
        ELSE IF Len(l) = 0 THEN Raised(Raise("ZeroDivisionError"))
        ELSE Scalar(Num(s.n, s.d * Len(l)))

\* xmax(*args)
xmax(args) ==
    LET ex == raise_errors(args)
    IN  IF IsRaise(ex) THEN Raised(ex) ELSE Outcome(PyMax(flatten(args, "is_number")))

\* xmin(*args)
xmin(args) ==
    LET ex == raise_errors(args)
    IN  IF IsRaise(ex) THEN Raised(ex) ELSE Outcome(PyMin(flatten(args, "is_number")))

\* xsum(*args)
xsum(args) ==
    LET ex == raise_errors(args)
    IN  IF IsRaise(ex) THEN Raised(ex)
        ELSE Outcome(PySum(Num(0, 1), flatten(args, "is_number")))

\* the float vector xsumproduct builds of one argument: zeros, with the
\* leaves is_number accepts copied in (the copy converts them to float)
SumproductInput(a) ==
    LET r == Ravel(a.data)
    IN  [i \in DOMAIN r |-> IF is_number(r[i]) THEN ToFloat(r[i]) ELSE Num(0, 1)]

\* np.prod(inputs, axis=0)[i]
RECURSIVE ProdAt(_, _)
ProdAt(inputs, i) ==
    IF inputs = <<>> THEN Num(1, 1) ELSE Mul(Head(inputs)[i], ProdAt(Tail(inputs), i))

\* np.sum of the first n products
RECURSIVE SumProducts(_, _)
SumProducts(inputs, n) ==
    IF n = 0 THEN Num(0, 1) ELSE Add(SumProducts(inputs, n - 1), ProdAt(inputs, n))

\* variant: xsumproduct asserting the sizes before it looks for error values
xsumproduct_sizes_first(args) ==
    LET ex == raise_errors(args)
        inputs == [i \in DOMAIN args |-> SumproductInput(args[i])]
    IN  IF Cardinality({Size(args[i]) : i \in DOMAIN args}) # 1
        THEN Raised(Raise("AssertionError"))
        ELSE IF IsRaise(ex) THEN Raised(ex)
        ELSE Scalar(SumProducts(inputs, Size(args[1])))

\* xsumproduct(*args), on array arguments
xsumproduct(args) ==
    LET ex == raise_errors(args)
        inputs == [i \in DOMAIN args |-> SumproductInput(args[i])]
    IN  IF IsRaise(ex) THEN Raised(ex)
        ELSE IF Cardinality({Size(args[i]) : i \in DOMAIN args}) # 1
             THEN Raised(Raise("AssertionError"))
        ELSE Scalar(SumProducts(inputs, Size(args[1])))

(***************************************************************************)
(* iserr and iserror.                                                      *)
(***************************************************************************)
\* variant: iserr without the test for #N/A
IsErrLeaf_any(v) == XlError(v)

\* the test of iserr on one leaf
IsErrLeaf(v) == XlError(v) /\ v # Error("#N/A")

\* the bool array iserr (strict) or iserror builds over an array: the test
\* on every ravelled leaf, resized to the array's shape
BoolArray(val, strict) ==
    Array([r \in DOMAIN val.data |-> [c \in DOMAIN val.data[r] |->
        Bool(IF strict THEN IsErrLeaf(val.data[r][c]) ELSE XlError(val.data[r][c]))]])

\* iserr(val): a value that is no array has no ravel (AttributeError), and
\* is tested as the 1 x 1 array [[val]], of which [0][0] is returned
iserr(val) ==
    IF val.kind = "array" THEN BoolArray(val, TRUE)
    ELSE Scalar(BoolArray(Array(val.data), TRUE).data[1][1])

\* iserror(val)
iserror(val) ==
    IF val.kind = "array" THEN BoolArray(val, FALSE)
    ELSE Scalar(BoolArray(Array(val.data), FALSE).data[1][1])

(***************************************************************************)
(* Callables.  A callable is the chain of its wrappers down to the wrapped *)
(* function: wrap_ufunc(np.abs) is <<"wrap_func", "wrapper", "np.abs">>.   *)
(***************************************************************************)
RECURSIVE Call(_, _)

\* safe_eval(*vals) of wrap_ufunc(func): the leaves go through float, a
\* ValueError or TypeError gives #VALUE!, a nan or inf result gives #NUM!.
\* When func returns an ndarray (func is itself a wrap_ufunc function, whose
\* result is an object array), np.isnan has no loop for it and raises
\* TypeError, which the except clause turns into #VALUE!.
safe_eval(func, vals) ==
    LET fl == [i \in DOMAIN vals |-> ToFloat(vals[i])]
        r == Call(func, [i \in DOMAIN vals |-> Scalar(fl[i])])
    IN  IF \E i \in DOMAIN vals : IsRaise(fl[i]) THEN Error("#VALUE!")
        ELSE IF r.kind # "scalar" THEN Error("#VALUE!")
        ELSE IF ~XlError(Item(r)) /\ Item(r).k \in {"nan", "inf"} THEN Error("#NUM!")
        ELSE Item(r)

\* variant: a call in which one leaf that fails to convert fails every
\* position (the conversion done on the whole array, not per leaf)
vectorize_whole(func, args) ==
    LET cell(r, c) == safe_eval(func, [i \in DOMAIN args |-> args[i].data[r][c]])
        failed == \E i \in DOMAIN args : \E r \in DOMAIN args[i].data :
                    \E c \in DOMAIN args[i].data[r] : IsRaise(ToFloat(args[i].data[r][c]))
        out == [r \in DOMAIN args[1].data |-> [c \in DOMAIN args[1].data[r] |->
                    IF failed THEN Error("#VALUE!") ELSE cell(r, c)]]
    IN  IF \A i \in DOMAIN args : args[i].kind # "array" THEN Array0(out[1][1])
        ELSE Array(out)

\* np.vectorize(safe_eval, otypes=[object])(*args), on arguments of one
\* shape: a 0-d array for scalars, else an array of the arguments' shape
vectorize(func, args) ==
    IF \A i \in DOMAIN args : args[i].kind # "array"
    THEN Array0(safe_eval(func, [i \in DOMAIN args |-> Item(args[i])]))
    ELSE Array([r \in DOMAIN args[1].data |-> [c \in DOMAIN args[1].data[r] |->
            safe_eval(func, [i \in DOMAIN args |-> args[i].data[r][c]])]])

\* wrapper(*args) of wrap_ufunc(func)
wrapper(func, args) == vectorize(func, [i \in DOMAIN args |-> replace_empty(args[i])])

\* the wrapper wrap_func(func) returns: empty arguments are replaced, and a
\* FoundError of func is returned as the error value it carries
wrap_func(func, args) ==
    LET r == Call(func, [i \in DOMAIN args |-> replace_empty(args[i])])
    IN  IF r.kind = "raise" /\ Item(r).e = "FoundError"
        THEN Scalar(Error(Item(r).t[1]))
        ELSE r

\* not_implemented(*args)
not_implemented(args) == Raised(Raise("NotImplementedFunction"))

\* wrap_ufunc(func)
wrap_ufunc(func) == <<"wrap_func", "wrapper">> \o func

Call(f, args) ==
    CASE Head(f) = "wrap_func" -> wrap_func(Tail(f), args)
      [] Head(f) = "wrapper" -> wrapper(Tail(f), args)
      [] f = <<"not_implemented">> -> not_implemented(args)
      [] f = <<"np.abs">> -> Scalar(NpAbs(Item(args[1])))
      [] f = <<"xarctan2">> -> Scalar(xarctan2(Item(args[1]), Item(args[2])))
      [] f = <<"xmod">> -> Scalar(xmod(Item(args[1]), Item(args[2])))
      [] f = <<"xpower">> -> Scalar(xpower(Item(args[1]), Item(args[2])))
      [] f = <<"average">> -> average(args)
      [] f = <<"xmax">> -> xmax(args)
      [] f = <<"xmin">> -> xmin(args)
      [] f = <<"xsum">> -> xsum(args)
      [] f = <<"xsumproduct">> -> xsumproduct(args)
      [] f = <<"iserr">> -> iserr(args[1])
      [] f = <<"iserror">> -> iserror(args[1])

(***************************************************************************)
(* The registry.  FUNCTIONS is a collections.defaultdict whose factory     *)
(* gives not_implemented: FUNCTIONS[name] on a missing key stores the      *)
(* factory's value under that key and returns it.                          *)
(***************************************************************************)
\* the assignments FUNCTIONS[name] = callable of the module, in order
Registrations ==
    <<
      <<"ABS", wrap_ufunc(<<"np.abs">>)>>,
      <<"ACOS", wrap_ufunc(<<"np.arccos">>)>>,
      <<"ACOSH", wrap_ufunc(<<"np.arccosh">>)>>,
      <<"ARRAY", <<"lambda ARRAY">>>>,
      <<"ARRAYROW", <<"lambda ARRAYROW">>>>,
      <<"ASIN", wrap_ufunc(<<"np.arcsin">>)>>,
      <<"ASINH", wrap_ufunc(<<"np.arcsinh">>)>>,
      <<"ATAN", wrap_ufunc(<<"np.arctan">>)>>,
      <<"ATAN2", wrap_ufunc(<<"xarctan2">>)>>,
      <<"ATANH", wrap_ufunc(<<"np.arctanh">>)>>,
      <<"AVERAGE", <<"wrap_func", "average">>>>,
      <<"COS", wrap_ufunc(<<"np.cos">>)>>,
      <<"COSH", wrap_ufunc(<<"np.cosh">>)>>,
      <<"DEGREES", wrap_ufunc(<<"np.degrees">>)>>,
      <<"EXP", wrap_ufunc(<<"np.exp">>)>>,
      <<"IF", <<"wrap_func", "lambda IF">>>>,
      <<"IFERROR", <<"iferror">>>>,
      <<"INT", <<"wrap_func", "int">>>>,
      <<"ISERR", <<"iserr">>>>,
      <<"ISERROR", <<"iserror">>>>,
      <<"LOG", wrap_ufunc(<<"np.log10">>)>>,
      <<"LN", wrap_ufunc(<<"np.log">>)>>,
      <<"MAX", <<"wrap_func", "xmax">>>>,
      <<"MIN", <<"wrap_func", "xmin">>>>,
      <<"MOD", wrap_ufunc(<<"xmod">>)>>,
      <<"PI", <<"lambda PI">>>>,
      <<"POWER", wrap_ufunc(<<"xpower">>)>>,
      <<"RADIANS", wrap_ufunc(<<"np.radians">>)>>,
      <<"SIN", wrap_ufunc(<<"np.sin">>)>>,
      <<"SINH", wrap_ufunc(<<"np.sinh">>)>>,
      <<"SUMPRODUCT", <<"wrap_func", "xsumproduct">>>>,
      <<"SQRT", wrap_ufunc(<<"np.sqrt">>)>>,
      <<"SUM", <<"wrap_func", "xsum">>>>,
      <<"TAN", wrap_ufunc(<<"np.tan">>)>>,
      <<"TANH", wrap_ufunc(<<"np.tanh">>)>>,
      <<"LEFT", <<"wrap_func", "left">>>>,
      <<"MID", <<"wrap_func", "mid">>>>,
      <<"RIGHT", <<"wrap_func", "right">>>>,
      <<"FIND", <<"wrap_func", "find">>>>,
      <<"TRIM", <<"wrap_func", "trim">>>>,
      <<"LEN", <<"lambda LEN">>>>,
      <<"REPLACE", <<"wrap_func", "replace">>>>,
      <<"UPPER", <<"lambda UPPER">>>>,
      <<"LOWER", <<"lambda LOWER">>>>
    >>

\* the dict after library initialization
Registered ==
    [name \in {Registrations[i][1] : i \in DOMAIN Registrations} |->
        LET i == CHOOSE j \in DOMAIN Registrations : Registrations[j][1] = name
        IN  Registrations[i][2]]

\* names looked up that the library never registered (lookup is case-sensitive)
AbsentNames == {"FOO", "abs"}

\* the dict after FUNCTIONS[name]: a missing key is inserted by the factory
GetItem(F, name) ==
    IF name \in DOMAIN F THEN F ELSE F @@ (name :> <<"not_implemented">>)

(***************************************************************************)
(* The arguments the operations are exercised on.                          *)
(***************************************************************************)
Nums == {Num(i, 1) : i \in -MaxNum..MaxNum}
Errors == {Error(c) : c \in ErrorCodes}
NonNumericText == Text(<<"a", "b">>)

\* the shapes of the arrays of at most MaxSize leaves
Shapes == {sh \in (1..MaxSize) \X (1..MaxSize) : sh[1] * sh[2] <= MaxSize}
RowShapes == {sh \in Shapes : sh[1] = 1}
\* the array of a shape whose leaves, row-major, are f[1], f[2], ...
ArrayOf(sh, f) ==
    Array([r \in 1..sh[1] |-> [c \in 1..sh[2] |-> f[(r - 1) * sh[2] + c]]])
\* the leaf sequences that fill a shape
Fill(sh, pool) == [1..(sh[1] * sh[2]) -> pool]

UfuncLeaves ==
    Nums \cup Errors
    \cup {NonNumericText, Text(<<"-", "2">>), Text(<<"i", "n", "f">>), Bool(TRUE), Empty}
BinLeaves == Nums \cup {NonNumericText, Text(<<"-", "2">>), Error("#N/A"), Empty}
AggLeaves ==
    {Num(-1, 1), Num(0, 1), Num(2, 1), NonNumericText, Text(<<"2">>), Error("#N/A"),
     Error("#DIV/0!"), Bool(TRUE)}
ProdLeaves == {Num(2, 1), Num(-1, 1), NonNumericText, Text(<<"3">>), Error("#REF!")}
PredLeaves == Nums \cup Errors \cup {NonNumericText, Bool(FALSE), Empty}

(***************************************************************************)
(* The state machine.                                                      *)
(***************************************************************************)
Idle == [op |-> "idle", name |-> "", callee |-> <<>>, args |-> <<>>,
         result |-> Scalar(None)]

Init == FUNCTIONS = Registered /\ last = Idle

\* FUNCTIONS[name], not called
Lookup(name) ==
    /\ FUNCTIONS' = GetItem(FUNCTIONS, name)
    /\ last' = [op |-> "lookup", name |-> name, callee |-> FUNCTIONS'[name],
                args |-> <<>>, result |-> Scalar(None)]

\* FUNCTIONS[name](*args)
Invoke(name, args) ==
    /\ FUNCTIONS' = GetItem(FUNCTIONS, name)
    /\ last' = [op |-> "invoke", name |-> name, callee |-> FUNCTIONS'[name],
                args |-> args, result |-> Call(FUNCTIONS'[name], args)]

\* wrap_ufunc(FUNCTIONS[name])(*args): a wrap_ufunc function wrapped again
Rewrap(name, args) ==
    /\ FUNCTIONS' = GetItem(FUNCTIONS, name)
    /\ last' = [op |-> "rewrap", name |-> name, callee |-> wrap_ufunc(FUNCTIONS'[name]),
                args |-> args, result |-> Call(wrap_ufunc(FUNCTIONS'[name]), args)]

LookupAny ==
    /\ last.op = "idle"
    /\ \E name \in {"ABS", "SUM", "ISERR", "PI"} \cup AbsentNames : Lookup(name)

InvokeAbsent ==
    /\ last.op = "idle"
    /\ \E name \in AbsentNames : Invoke(name, <<Scalar(Num(1, 1))>>)

\* a wrap_ufunc function of one argument: a scalar or an array
UnaryCall(name) ==
    /\ last.op = "idle"
    /\ \/ \E c \in UfuncLeaves : Invoke(name, <<Scalar(c)>>)
       \/ \E sh \in Shapes : \E f \in Fill(sh, UfuncLeaves) : Invoke(name, <<ArrayOf(sh, f)>>)

\* a wrap_ufunc function of two scalar arguments
BinaryCall(name) ==
    /\ last.op = "idle"
    /\ \E a \in BinLeaves, b \in BinLeaves : Invoke(name, <<Scalar(a), Scalar(b)>>)

\* an aggregate: one array, two scalars, or a scalar and an array
AggCall(name) ==
    /\ last.op = "idle"
    /\ \/ \E sh \in Shapes : \E f \in Fill(sh, AggLeaves) : Invoke(name, <<ArrayOf(sh, f)>>)
       \/ \E a \in AggLeaves, b \in AggLeaves : Invoke(name, <<Scalar(a), Scalar(b)>>)
       \/ \E a \in AggLeaves, sh \in Shapes : \E f \in Fill(sh, AggLeaves) :
              Invoke(name, <<Scalar(a), ArrayOf(sh, f)>>)
       \/ \E a \in AggLeaves, sh \in Shapes : \E f \in Fill(sh, AggLeaves) :
              Invoke(name, <<ArrayOf(sh, f), Scalar(a)>>)

\* an error predicate: a scalar or an array
PredCall(name) ==
    /\ last.op = "idle"
    /\ \/ \E c \in PredLeaves : Invoke(name, <<Scalar(c)>>)
       \/ \E sh \in Shapes : \E f \in Fill(sh, PredLeaves) : Invoke(name, <<ArrayOf(sh, f)>>)

InvokeABS == UnaryCall("ABS")
InvokeATAN2 == BinaryCall("ATAN2")
InvokeMOD == BinaryCall("MOD")
InvokePOWER == BinaryCall("POWER")
InvokeAVERAGE == AggCall("AVERAGE")
InvokeMAX == AggCall("MAX")
InvokeMIN == AggCall("MIN")
InvokeSUM == AggCall("SUM")
InvokeISERR == PredCall("ISERR")
InvokeISERROR == PredCall("ISERROR")

\* SUMPRODUCT of two arrays
InvokeSUMPRODUCT ==
    /\ last.op = "idle"
    /\ \E sa \in Shapes, sb \in RowShapes :
          \E fa \in Fill(sa, ProdLeaves), fb \in Fill(sb, ProdLeaves) :
             Invoke("SUMPRODUCT", <<ArrayOf(sa, fa), ArrayOf(sb, fb)>>)

RewrapABS ==
    /\ last.op = "idle"
    /\ \/ \E c \in UfuncLeaves : Rewrap("ABS", <<Scalar(c)>>)
       \/ \E sh \in Shapes : \E f \in Fill(sh, UfuncLeaves) : Rewrap("ABS", <<ArrayOf(sh, f)>>)

RewrapMOD ==
    /\ last.op = "idle"
    /\ \E a \in BinLeaves, b \in BinLeaves : Rewrap("MOD", <<Scalar(a), Scalar(b)>>)

\* the caller takes the result; the next operation starts from the registry
\* as the last one left it
Return == last.op # "idle" /\ last' = Idle /\ UNCHANGED FUNCTIONS

Next ==
    \/ LookupAny \/ InvokeAbsent \/ InvokeABS \/ InvokeATAN2 \/ InvokeMOD
    \/ InvokePOWER \/ InvokeAVERAGE \/ InvokeMAX \/ InvokeMIN \/ InvokeSUM
    \/ InvokeSUMPRODUCT \/ InvokeISERR \/ InvokeISERROR \/ RewrapABS
    \/ RewrapMOD \/ Return

Spec == Init /\ [][Next]_vars

(***************************************************************************)
(* Properties.                                                             *)
(***************************************************************************)
Invoked(names) == last.op = "invoke" /\ last.name \in names
\* the positions of an array (or the one position of a scalar)
Positions(v) == {<<r, c>> : r \in DOMAIN v.data, c \in DOMAIN v.data[1]}
At(v, pos) == v.data[pos[1]][pos[2]]
\* all leaves of the arguments, arguments left to right, row-major inside
AllLeaves(args) == Ravel([i \in DOMAIN args |-> Ravel(args[i].data)])
IsError(v) == v.k = "err"
\* the first error value among leaves, if any
HasError(leaves) == \E i \in DOMAIN leaves : IsError(leaves[i])
FirstError(leaves) ==
    leaves[CHOOSE i \in DOMAIN leaves :
        IsError(leaves[i]) /\ \A j \in 1..(i - 1) : ~IsError(leaves[j])]

\* C1: a wrap_ufunc function passes an error value of an input through: at
\* a position where an input leaf is an error value, the output holds an
\* error value of the inputs at that position, never another code.
C1_ErrorPassThrough ==
    Invoked({"ABS", "ATAN2", "MOD", "POWER"}) =>
        \A pos \in Positions(last.result) :
            LET errs == {At(last.args[i], pos) : i \in DOMAIN last.args} \cap Errors
            IN  errs # {} => At(last.result, pos) \in errs

\* C2: SUM, MAX and MIN return the first error value among the flattened
\* leaves when there is one, and FoundError never reaches the caller.
C2_FailFast ==
    Invoked({"SUM", "MAX", "MIN"}) =>
        LET leaves == AllLeaves(last.args)
        IN  /\ HasError(leaves) => last.result = Scalar(FirstError(leaves))
            /\ ~(last.result.kind = "raise" /\ Item(last.result).e = "FoundError")

\* C2 witness: SUM of a scalar and an array that holds two different error
\* values after a number returned the first of them.
C2_Witness ==
    /\ Invoked({"SUM"})
    /\ Len(last.args) = 2
    /\ AllLeaves(last.args) = <<Num(2, 1), Error("#DIV/0!"), Error("#N/A")>>
    /\ last.result = Scalar(Error("#DIV/0!"))

\* C3: the registry is the same after any sequence of lookups and
\* invocations as after initialization.
C3_RegistryReadOnly == FUNCTIONS = Registered

\* what ABS gives on a leaf that is a number or a text of the model
ExpectedAbs(leaf) ==
    CASE leaf.k = "num" -> Num(Abs(leaf.n), leaf.d)
      [] leaf = Text(<<"-", "2">>) -> Num(2, 1)
      [] leaf = Text(<<"i", "n", "f">>) -> Error("#NUM!")
      [] leaf = NonNumericText -> Error("#VALUE!")

\* C4: ABS of an array of numbers and texts has the shape of its input,
\* holds #VALUE! exactly where the leaf is no numeral, and the value of ABS
\* on the leaf everywhere else, whatever the sibling leaves are; no
\* exception is raised.
C4_Elementwise ==
    (Invoked({"ABS"}) /\ \A pos \in Positions(last.args[1]) :
                            At(last.args[1], pos).k \in {"num", "text"}) =>
        /\ last.result.kind \in {"array", "array0"}
        /\ Shape(last.result) = Shape(last.args[1])
        /\ Positions(last.result) = Positions(last.args[1])
        /\ \A pos \in Positions(last.args[1]) :
              /\ At(last.result, pos) = ExpectedAbs(At(last.args[1], pos))
              /\ At(last.result, pos) = Error("#VALUE!")
                    <=> At(last.args[1], pos) = NonNumericText

\* C4 witness: ABS of a one-row array of a text that is no numeral and a
\* negative number gave #VALUE! and the absolute value.
C4_Witness ==
    /\ Invoked({"ABS"})
    /\ last.args = <<Array(<<<<NonNumericText, Num(-2, 1)>>>>)>>
    /\ last.result = Array(<<<<Error("#VALUE!"), Num(2, 1)>>>>)

\* the two numeric scalar arguments of the last call
BothNumbers == Len(last.args) = 2 /\ \A i \in 1..2 : Item(last.args[i]).k = "num"
Arg(i) == Item(last.args[i]).n

\* C5: POWER(0, 0) is #NUM!, POWER(0, negative) is #DIV/0!, and every other
\* POWER(number, power) is number ^ power.
C5_Power ==
    (Invoked({"POWER"}) /\ BothNumbers) =>
        Item(last.result) =
            IF Arg(1) = 0 /\ Arg(2) = 0 THEN Error("#NUM!")
            ELSE IF Arg(1) = 0 /\ Arg(2) < 0 THEN Error("#DIV/0!")
            ELSE IF Arg(2) >= 0 THEN Num(IntPow(Arg(1), Arg(2)), 1)
            ELSE Num(1, IntPow(Arg(1), -Arg(2)))

\* C5 witness: POWER of zero and a negative power gave #DIV/0!.
C5_Witness ==
    /\ Invoked({"POWER"}) /\ BothNumbers
    /\ Arg(1) = 0 /\ Arg(2) < 0
    /\ Item(last.result) = Error("#DIV/0!")

\* C6: MOD(x, 0) is #DIV/0! and MOD(x, y) is otherwise the remainder of x
\* by y (0 included); ATAN2(a, b) is #DIV/0! exactly at a = b = 0 and
\* otherwise atan2(b, a), so ATAN2(0, 1) is the right angle and ATAN2(1, 0)
\* is 0.
C6_ModAtan2 ==
    /\ (Invoked({"MOD"}) /\ BothNumbers) =>
          LET r == Item(last.result)
          IN  IF Arg(2) = 0 THEN r = Error("#DIV/0!")
              ELSE /\ r.k = "num" /\ r.d = 1
                   /\ (Arg(1) - r.n) % Abs(Arg(2)) = 0
                   /\ IF Arg(2) > 0 THEN 0 <= r.n /\ r.n < Arg(2)
                                    ELSE Arg(2) < r.n /\ r.n <= 0
    /\ (Invoked({"ATAN2"}) /\ BothNumbers) =>
          LET r == Item(last.result)
          IN  /\ r = Error("#DIV/0!") <=> (Arg(1) = 0 /\ Arg(2) = 0)
              /\ ~(Arg(1) = 0 /\ Arg(2) = 0) =>
                    r = NpArctan2(Num(Arg(2), 1), Num(Arg(1), 1))
              /\ (Arg(1) = 0 /\ Arg(2) = 1) => r = Angle(1, 0)
              /\ (Arg(1) = 1 /\ Arg(2) = 0) => r = Num(0, 1)

\* C6 witness: MOD with a nonzero divisor that divides x gave the number 0.
C6_Witness ==
    /\ Invoked({"MOD"}) /\ BothNumbers
    /\ Arg(1) = 2 /\ Arg(2) = 2
    /\ Item(last.result) = Num(0, 1)

\* C7: ISERROR is true exactly at the error values, ISERR exactly at the
\* error values other than #N/A; an array gives a bool array of its shape
\* and a scalar a single bool.
C7_ErrorPredicates ==
    Invoked({"ISERR", "ISERROR"}) =>
        /\ last.result.kind = last.args[1].kind
        /\ Shape(last.result) = Shape(last.args[1])
        /\ Positions(last.result) = Positions(last.args[1])
        /\ \A pos \in Positions(last.args[1]) :
              LET v == At(last.args[1], pos)
              IN  At(last.result, pos) =
                    Bool(IsError(v) /\ (last.name = "ISERR" => v.e # "#N/A"))

\* C7 witness: ISERR of a column of #N/A and #REF! gave false and true.
C7_Witness ==
    /\ Invoked({"ISERR"})
    /\ last.args = <<Array(<<<<Error("#N/A")>>, <<Error("#REF!")>>>>)>>
    /\ last.result = Array(<<<<Bool(FALSE)>>, <<Bool(TRUE)>>>>)

\* C8: a wrap_ufunc function wrapped by wrap_ufunc again returns what the
\* function itself returns on the same arguments.
C8_WrapIdempotent ==
    last.op = "rewrap" => last.result = Call(FUNCTIONS[last.name], last.args)

\* what a leaf counts for in SUMPRODUCT
LeafValue(leaf) ==
    CASE leaf.k = "num" -> leaf
      [] leaf = NonNumericText -> Num(0, 1)
      [] leaf = Text(<<"3">>) -> Num(3, 1)

\* the sum of the products of the leaves of two equally long sequences
RECURSIVE Dot(_, _)
Dot(la, lb) ==
    IF la = <<>> THEN Num(0, 1)
    ELSE Add(Mul(LeafValue(Head(la)), LeafValue(Head(lb))), Dot(Tail(la), Tail(lb)))

C10_Average ==
    LET leaves == AllLeaves(last.args)
        IsNum(v) == v.k = "num"
        nums == SelectSeq(leaves, IsNum)
        total == PySum(Num(0, 1), nums)
    IN  (Invoked({"AVERAGE"}) /\ \A i \in DOMAIN leaves :
                                    IsNum(leaves[i]) \/ IsError(leaves[i])
                                    \/ leaves[i] = NonNumericText) =>
            IF nums # <<>> THEN last.result = Scalar(Num(total.n, total.d * Len(nums)))
            ELSE last.result.kind # "raise"

====
